---- MODULE Spec2Model ----
(***************************************************************************)
(* State-machine model of valutatrade_hub: the Wallet / Portfolio / User   *)
(* classes of core/models.py and the command handlers of cli/interface.py. *)
(*                                                                         *)
(* Floats are fixed-point numbers in tenths, Fin(n) standing for n/10,     *)
(* plus the IEEE value NaN, which float("nan") parses to and which every   *)
(* ordering comparison answers False on.                                   *)
(***************************************************************************)
EXTENDS Integers, Sequences, FiniteSets, TLC

VARIABLES
    users_file,        \* data/users.json: list of account records
    portfolios_file,   \* data/portfolios.json: list of portfolio records
    rates_file,        \* data/rates.json: {base: {quote: rate}}
    current_user,      \* SESSION["current_user"]: None or the User with its .portfolio
    last,              \* the last command or call, its arguments and its outcome
    replaced,          \* history: the passwords change_password has replaced on
                       \* the current User object
    procs              \* two further runs of the program on the same data
                       \* directory: each process's SESSION, its position inside
                       \* save_portfolios, and what it has reported bought

vars == <<users_file, portfolios_file, rates_file, current_user, last, replaced, procs>>

\* Largest finite balance, in whole currency units, the model lets a wallet reach.
MaxBal == 2

\* Largest number of accounts the model registers.
MaxUsers == 2

None == [none |-> TRUE]

-----------------------------------------------------------------------------
(* Floats *)

Fin(n) == [k |-> "fin", v |-> n]
NaN == [k |-> "nan", v |-> 0]

FLt(a, b) == a.k = "fin" /\ b.k = "fin" /\ a.v < b.v
FLe(a, b) == a.k = "fin" /\ b.k = "fin" /\ a.v <= b.v
FGt(a, b) == FLt(b, a)
FAdd(a, b) == IF a.k = "nan" \/ b.k = "nan" THEN NaN ELSE Fin(a.v + b.v)
FSub(a, b) == IF a.k = "nan" \/ b.k = "nan" THEN NaN ELSE Fin(a.v - b.v)
FMul(a, b) == IF a.k = "nan" \/ b.k = "nan" THEN NaN ELSE Fin((a.v * b.v) \div 10)

\* float(amount) on a command-line token; "" is an absent --amount (None).
ParseFloat(tok) ==
    CASE tok = "-1"  -> [ok |-> TRUE, val |-> Fin(-10)]
      [] tok = "0"   -> [ok |-> TRUE, val |-> Fin(0)]
      [] tok = "1"   -> [ok |-> TRUE, val |-> Fin(10)]
      [] tok = "2"   -> [ok |-> TRUE, val |-> Fin(20)]
      [] tok = "nan" -> [ok |-> TRUE, val |-> NaN]
      [] OTHER       -> [ok |-> FALSE, val |-> NaN]

AmountArgs == {"", "abc", "-1", "0", "1", "2", "nan"}

\* str.upper() on a --currency token.
Upper(tok) ==
    CASE tok = "usd" -> "USD"
      [] tok = "eur" -> "EUR"
      [] OTHER       -> tok

CurrencyArgs == {"", "usd", "EUR", "eur"}
Codes == {Upper(t) : t \in CurrencyArgs \ {""}}

-----------------------------------------------------------------------------
(* core/models.py: Wallet *)

\* Wallet.balance setter: the new balance, or ValueError on a negative value.
BalanceSetterRejects(value) == FLt(value, Fin(0))

\* Wallet.deposit(amount) on a wallet holding bal; amount is a parsed Python value.
WalletDeposit(bal, arg) ==
    IF ~arg.ok THEN [res |-> "type_error", bal |-> bal]
    ELSE IF FLe(arg.val, Fin(0)) THEN [res |-> "invalid_amount", bal |-> bal]
    ELSE [res |-> "ok", bal |-> FAdd(bal, arg.val)]

\* Wallet.withdraw(amount).
WalletWithdraw(bal, arg) ==
    IF ~arg.ok THEN [res |-> "type_error", bal |-> bal]
    ELSE IF FLe(arg.val, Fin(0)) THEN [res |-> "invalid_amount", bal |-> bal]
    ELSE IF FGt(arg.val, bal) THEN [res |-> "insufficient_funds", bal |-> bal]
    ELSE [res |-> "ok", bal |-> FSub(bal, arg.val)]

-----------------------------------------------------------------------------
(* core/models.py: Portfolio; wallets maps a currency code to its balance *)

NoWallets == [c \in {} |-> Fin(0)]

SetWallet(wallets, code, bal) ==
    [c \in DOMAIN wallets \cup {code} |-> IF c = code THEN bal ELSE wallets[c]]

AddCurrencyOverwrite(wallets, code) ==
    [res |-> "ok", wallets |-> SetWallet(wallets, code, Fin(0))]

\* Portfolio.add_currency(code).
AddCurrency(wallets, code) ==
    IF code \in DOMAIN wallets
    THEN [res |-> "duplicate_wallet", wallets |-> wallets]
    ELSE [res |-> "ok", wallets |-> SetWallet(wallets, code, Fin(0))]

\* get_total_value: the exchange_rates literal, 1.0, 1.1 and 50000.0.
ExchangeRates ==
    [c \in {"USD", "EUR", "BTC"} |->
        IF c = "USD" THEN Fin(10) ELSE IF c = "EUR" THEN Fin(11) ELSE Fin(500000)]

\* A float quotient a / b, kept as the exact ratio of the two operands.
FDiv(a, b) ==
    IF a.k = "nan" \/ b.k = "nan" THEN NaN ELSE [k |-> "ratio", n |-> a.v, d |-> b.v]

ToBaseNoDivision(total, rate) == total

\* get_total_value: return total / exchange_rates[base_currency].
ToBase(total, rate) == FDiv(total, rate)

\* get_total_value: the loop over the wallets, those whose code the table
\* lacks skipped by continue.
RECURSIVE TotalOf(_, _)
TotalOf(wallets, codes) ==
    IF codes = {} THEN Fin(0)
    ELSE LET code == CHOOSE c \in codes : TRUE
             rest == TotalOf(wallets, codes \ {code})
         IN IF code \notin DOMAIN ExchangeRates THEN rest
            ELSE FAdd(rest, FMul(wallets[code], ExchangeRates[code]))

\* Portfolio.get_total_value(base_currency).
GetTotalValue(wallets, base) ==
    IF base \notin DOMAIN ExchangeRates THEN [res |-> "unknown_base", value |-> None]
    ELSE [res |-> "ok",
          value |-> ToBase(TotalOf(wallets, DOMAIN wallets), ExchangeRates[base])]

-----------------------------------------------------------------------------
(* core/models.py: User; a password or a salt is a sequence of characters *)

PwShort == <<1, 2, 3>>
PwA == <<1, 2, 3, 4>>
PwB == <<4, 3, 2, 1>>

\* hashlib.sha256((password + salt).encode()).hexdigest(): SHA-256 taken as
\* injective, so the digest is identified with the string it is computed from.
HashPassword(password, salt) == password \o salt

VerifyPasswordAny(user, password) == TRUE

\* User.verify_password(password).
VerifyPassword(user, password) ==
    HashPassword(password, user.salt) = user.hashed_password

ChangePasswordKeepsHash(user, new_password, new_salt) ==
    IF Len(new_password) < 4
    THEN [res |-> "weak_password", user |-> user]
    ELSE [res |-> "ok", user |-> [user EXCEPT !.salt = new_salt]]

\* User.change_password(new_password) with the salt generate_salt() drew.
ChangePassword(user, new_password, new_salt) ==
    IF Len(new_password) < 4
    THEN [res |-> "weak_password", user |-> user]
    ELSE [res |-> "ok",
          user |-> [user EXCEPT !.salt = new_salt,
                                !.hashed_password = HashPassword(new_password, new_salt)]]

-----------------------------------------------------------------------------
(* cli/interface.py: the stores *)

\* get_user_by_username(username): the first record with that name, or None.
GetUserByUsername(users, username) ==
    LET idx == {i \in 1..Len(users) : users[i].username = username}
    IN IF idx = {} THEN None
       ELSE users[CHOOSE i \in idx : \A j \in idx : i <= j]

\* load_portfolio(user_id): the wallets of the first record of user_id, rebuilt
\* as Wallet(code, w["balance"]), or None.
LoadPortfolio(portfolios, user_id) ==
    LET idx == {i \in 1..Len(portfolios) : portfolios[i].user_id = user_id}
        p == portfolios[CHOOSE i \in idx : \A j \in idx : i <= j]
    IN IF idx = {} THEN None
       ELSE [user_id |-> user_id,
             wallets |-> [c \in DOMAIN p.wallets |-> p.wallets[c].balance]]

SavePortfoliosAll(portfolios, user) ==
    [i \in 1..Len(portfolios) |->
        [user_id |-> portfolios[i].user_id,
         wallets |-> [c \in DOMAIN user.wallets |-> [balance |-> user.wallets[c]]]]]

SavePortfoliosSkipZero(portfolios, user) ==
    [i \in 1..Len(portfolios) |->
        IF portfolios[i].user_id = user.user_id
        THEN [user_id |-> portfolios[i].user_id,
              wallets |-> [c \in {d \in DOMAIN user.wallets : user.wallets[d] # Fin(0)} |->
                              [balance |-> user.wallets[c]]]]
        ELSE portfolios[i]]

\* save_portfolios(): the file with the current user's records rewritten from
\* the in-memory portfolio and every other record kept.
SavePortfolios(portfolios, user) ==
    [i \in 1..Len(portfolios) |->
        IF portfolios[i].user_id = user.user_id
        THEN [user_id |-> portfolios[i].user_id,
              wallets |-> [c \in DOMAIN user.wallets |-> [balance |-> user.wallets[c]]]]
        ELSE portfolios[i]]

\* get_rate(a, b): rates[a][b] when both keys are present, else None.
GetRate(rates, a, b) ==
    IF a \in DOMAIN rates /\ b \in DOMAIN rates[a] THEN rates[a][b] ELSE None

-----------------------------------------------------------------------------
(* cli/interface.py: the command handlers.  Each yields the outcome reported,  *)
(* the session slot and the portfolio file it leaves.  An exception no        *)
(* handler catches ends the process, and with it the session ("crash").       *)

Outcome(res, cu, pf) == [res |-> res, cu |-> cu, pf |-> pf]

\* the try/except of buy and sell: float(amount) fails or amount <= 0.
AmountRejected(parsed) == ~parsed.ok \/ FLe(parsed.val, Fin(0))

BuyCreditAssign(bal, amt) == amt

\* buy: wallet.balance += amount.
BuyCredit(bal, amt) == FAdd(bal, amt)

SellInsufficientLe(bal, amt) == FLe(bal, amt)

\* sell: the guard wallet.balance < amount.
SellInsufficient(bal, amt) == FLt(bal, amt)

\* sell: wallet.balance -= amount.
SellDebit(bal, amt) == FSub(bal, amt)

SellRevenueNoRate(amt, rate) == amt

\* sell: revenue = amount * rate.
SellRevenue(amt, rate) == FMul(amt, rate)

SellNoWalletCreates(cu, pf, code) ==
    Outcome("no_wallet", [cu EXCEPT !.wallets = AddCurrency(cu.wallets, code).wallets], pf)

\* sell: the currency has no wallet; report and return.
SellNoWallet(cu, pf, code) == Outcome("no_wallet", cu, pf)

SellRateUnavailableRollback(cu, w1, pf) == Outcome("rate_unavailable", cu, pf)

\* sell: the rate is None after the withdrawal; report and return, the
\* portfolio holding the wallets w1 the withdrawal left.
SellRateUnavailable(cu, w1, pf) ==
    Outcome("rate_unavailable", [cu EXCEPT !.wallets = w1], pf)

\* login(args).
LoginResult(users, cu, pf, username, password) ==
    IF username = "" \/ password = <<>> THEN Outcome("usage", cu, pf)
    ELSE LET user_data == GetUserByUsername(users, username)
         IN IF user_data = None THEN Outcome("user_not_found", cu, pf)
            ELSE IF ~VerifyPassword(user_data, password)
                 THEN Outcome("wrong_password", cu, pf)
            ELSE LET portfolio == LoadPortfolio(pf, user_data.user_id)
                 IN IF portfolio = None THEN Outcome("crash", None, pf)
                    ELSE Outcome("ok",
                                 [user_id |-> user_data.user_id,
                                  username |-> user_data.username,
                                  hashed_password |-> user_data.hashed_password,
                                  salt |-> user_data.salt,
                                  wallets |-> portfolio.wallets],
                                 pf)

UsernameTakenByLast(users, username) ==
    Len(users) > 0 /\ users[Len(users)].username = username

\* register: the scan of the stored accounts for the username.
UsernameTaken(users, username) ==
    \E i \in 1..Len(users) : users[i].username = username

NextUserIdByCount(users) == IF Len(users) = 0 THEN 1 ELSE Len(users)

\* register: user_id = max([u["user_id"] for u in users], default=0) + 1.
NextUserId(users) ==
    LET ids == {users[i].user_id : i \in 1..Len(users)} \cup {0}
    IN (CHOOSE m \in ids : \A n \in ids : n <= m) + 1

\* register(username, password) as the cli loop calls it, with the salt
\* secrets.token_hex drew: the account and its empty portfolio appended.
RegisterResult(users, cu, pf, username, password, salt) ==
    IF username = "" \/ password = <<>> THEN [res |-> "usage", users |-> users, pf |-> pf]
    ELSE IF UsernameTaken(users, username)
         THEN [res |-> "duplicate_username", users |-> users, pf |-> pf]
    ELSE IF Len(password) < 4
         THEN [res |-> "weak_password", users |-> users, pf |-> pf]
    ELSE LET user_id == NextUserId(users)
         IN [res |-> "ok",
             users |-> Append(users, [user_id |-> user_id, username |-> username,
                                      hashed_password |-> HashPassword(password, salt),
                                      salt |-> salt]),
             pf |-> Append(pf, [user_id |-> user_id, wallets |-> NoWallets])]

\* buy(args).
BuyResult(rates, cu, pf, currency, amount) ==
    LET parsed == ParseFloat(amount)
    IN IF cu = None THEN Outcome("login_required", cu, pf)
       ELSE IF AmountRejected(parsed) THEN Outcome("invalid_amount", cu, pf)
       ELSE IF currency = "" THEN Outcome("crash", None, pf)
       ELSE LET code == Upper(currency)
                w1 == IF code \notin DOMAIN cu.wallets
                      THEN AddCurrency(cu.wallets, code).wallets
                      ELSE cu.wallets
                newbal == BuyCredit(w1[code], parsed.val)
                user == [cu EXCEPT !.wallets = SetWallet(w1, code, newbal)]
                rate == GetRate(rates, code, "USD")
            IN IF BalanceSetterRejects(newbal) THEN Outcome("crash", None, pf)
               ELSE IF rate = None THEN Outcome("rate_unavailable", user, pf)
               ELSE Outcome("ok", user, SavePortfolios(pf, user))

\* sell(args).
SellResult(rates, cu, pf, currency, amount) ==
    LET parsed == ParseFloat(amount)
    IN IF cu = None THEN Outcome("login_required", cu, pf)
       ELSE IF AmountRejected(parsed) THEN Outcome("invalid_amount", cu, pf)
       ELSE IF currency = "" THEN Outcome("crash", None, pf)
       ELSE LET code == Upper(currency)
            IN IF code \notin DOMAIN cu.wallets THEN SellNoWallet(cu, pf, code)
               ELSE IF SellInsufficient(cu.wallets[code], parsed.val)
                    THEN Outcome("insufficient_funds", cu, pf)
               ELSE LET newbal == SellDebit(cu.wallets[code], parsed.val)
                        w1 == SetWallet(cu.wallets, code, newbal)
                        rate == GetRate(rates, code, "USD")
                        revenue == SellRevenue(parsed.val, rate)
                        w2 == IF "USD" \notin DOMAIN w1
                              THEN AddCurrency(w1, "USD").wallets
                              ELSE w1
                        usd == FAdd(w2["USD"], revenue)
                        user == [cu EXCEPT !.wallets = SetWallet(w2, "USD", usd)]
                    IN IF BalanceSetterRejects(newbal) THEN Outcome("crash", None, pf)
                       ELSE IF rate = None
                            THEN SellRateUnavailable(cu, w1, pf)
                       ELSE IF BalanceSetterRejects(usd) THEN Outcome("crash", None, pf)
                       ELSE Outcome("ok", user, SavePortfolios(pf, user))

-----------------------------------------------------------------------------
(* The state machine *)

\* Rate tables the rates file may hold: one quoting EUR->USD = 1.1 alone, one
\* quoting USD->USD = 1.0 and, of the EUR pair, only the inverse USD->EUR = 0.9.
\* Neither quotes BTC.
RateTables ==
    { [b \in {"EUR"} |-> [q \in {"USD"} |-> Fin(11)]],
      [b \in {"USD"} |-> [q \in {"EUR", "USD"} |-> IF q = "EUR" THEN Fin(9) ELSE Fin(10)]] }

SaltA == <<7>>
SaltB == <<8>>

UserRecord(id, name, password, salt) ==
    [user_id |-> id, username |-> name,
     hashed_password |-> HashPassword(password, salt), salt |-> salt]

Call(op, currency, amount, username, password, res) ==
    [op |-> op, currency |-> currency, amount |-> amount,
     username |-> username, password |-> password, res |-> res]

\* What a buy or sell leaves on record: login_required is reported before the
\* arguments are parsed, invalid_amount before the currency is read, and a
\* crash has no currency; every later outcome names the upper-cased currency
\* and the amount.
Trade(op, currency, amount, res) ==
    IF res \in {"login_required", "invalid_amount", "crash"}
    THEN Call(op, "", "", "", <<>>, res)
    ELSE Call(op, Upper(currency), amount, "", <<>>, res)

\* Every finite balance of the outcome is within the model's bound.
WithinBound(cu) ==
    IF cu = None THEN TRUE
    ELSE \A c \in DOMAIN cu.wallets :
            cu.wallets[c].k = "fin" => cu.wallets[c].v <= 10 * MaxBal

Procs == {1, 2}

\* A process that has just started: SESSION empty, not inside save_portfolios.
Idle == [session |-> None, read |-> None, call |-> None, bought |-> 0]

\* Two accounts registered and nobody logged in.  In earlier runs, under the
\* rates of the day, alice bought 1 BTC and bob 1 EUR and 1 USD.
Init ==
    /\ users_file = << UserRecord(1, "alice", PwA, SaltA),
                       UserRecord(2, "bob", PwB, SaltB) >>
    /\ portfolios_file = << [user_id |-> 1,
                             wallets |-> [c \in {"BTC"} |-> [balance |-> Fin(10)]]],
                            [user_id |-> 2,
                             wallets |-> [c \in {"EUR", "USD"} |-> [balance |-> Fin(10)]]] >>
    /\ rates_file \in RateTables
    /\ current_user = None
    /\ last = Call("start", "", "", "", <<>>, "ok")
    /\ replaced = {}
    /\ procs = [p \in Procs |-> Idle]

Login(username, password) ==
    LET r == LoginResult(users_file, current_user, portfolios_file, username, password)
    IN /\ current_user' = r.cu
       /\ portfolios_file' = r.pf
       /\ last' = Call("login", "", "", username,
                       IF r.res = "ok" THEN password ELSE <<>>, r.res)
       /\ replaced' = IF r.res \in {"ok", "crash"} THEN {} ELSE replaced
       /\ UNCHANGED <<procs, users_file, rates_file>>

Buy(currency, amount) ==
    LET r == BuyResult(rates_file, current_user, portfolios_file, currency, amount)
    IN /\ WithinBound(r.cu)
       /\ current_user' = r.cu
       /\ portfolios_file' = r.pf
       /\ last' = Trade("buy", currency, amount, r.res)
       /\ replaced' = IF r.res = "crash" THEN {} ELSE replaced
       /\ UNCHANGED <<procs, users_file, rates_file>>

Sell(currency, amount) ==
    LET r == SellResult(rates_file, current_user, portfolios_file, currency, amount)
    IN /\ WithinBound(r.cu)
       /\ current_user' = r.cu
       /\ portfolios_file' = r.pf
       /\ last' = Trade("sell", currency, amount, r.res)
       /\ replaced' = IF r.res = "crash" THEN {} ELSE replaced
       /\ UNCHANGED <<procs, users_file, rates_file>>

\* Direct calls of the library on the logged-in user's portfolio.
Deposit(code, amount) ==
    /\ current_user # None
    /\ code \in DOMAIN current_user.wallets
    /\ LET r == WalletDeposit(current_user.wallets[code], ParseFloat(amount))
           user == [current_user EXCEPT !.wallets[code] = r.bal]
       IN /\ WithinBound(user)
          /\ current_user' = user
          /\ last' = Call("deposit", code, amount, "", <<>>, r.res)
    /\ UNCHANGED <<procs, users_file, portfolios_file, rates_file, replaced>>

Withdraw(code, amount) ==
    /\ current_user # None
    /\ code \in DOMAIN current_user.wallets
    /\ LET r == WalletWithdraw(current_user.wallets[code], ParseFloat(amount))
       IN /\ current_user' = [current_user EXCEPT !.wallets[code] = r.bal]
          /\ last' = Call("withdraw", code, amount, "", <<>>, r.res)
    /\ UNCHANGED <<procs, users_file, portfolios_file, rates_file, replaced>>

AddCurrencyCall(code) ==
    /\ current_user # None
    /\ LET r == AddCurrency(current_user.wallets, code)
       IN /\ current_user' = [current_user EXCEPT !.wallets = r.wallets]
          /\ last' = Call("add_currency", code, "", "", <<>>, r.res)
    /\ UNCHANGED <<procs, users_file, portfolios_file, rates_file, replaced>>

\* exit / quit, then the program started again: SESSION is initialised to None.
Restart ==
    /\ current_user' = None
    /\ last' = Call("restart", "", "", "", <<>>, "ok")
    /\ replaced' = {}
    /\ UNCHANGED <<procs, users_file, portfolios_file, rates_file>>

\* User.change_password called on the logged-in User object.
ChangePasswordCall(new_password, new_salt) ==
    /\ current_user # None
    /\ LET r == ChangePassword(current_user, new_password, new_salt)
       IN /\ current_user' = r.user
          /\ last' = Call("change_password", "", "", "", new_password, r.res)
          /\ replaced' = IF r.res = "ok"
                         THEN replaced \cup {p \in {PwShort, PwA, PwB} :
                                                VerifyPassword(current_user, p)}
                         ELSE replaced
    /\ UNCHANGED <<procs, users_file, portfolios_file, rates_file>>

Register(username, password, salt) ==
    LET r == RegisterResult(users_file, current_user, portfolios_file,
                            username, password, salt)
    IN /\ Len(r.users) <= MaxUsers
       /\ users_file' = r.users
       /\ portfolios_file' = r.pf
       /\ last' = Call("register", "", "", username, password, r.res)
       /\ UNCHANGED <<procs, rates_file, current_user, replaced>>

UsernameArgs == {"", "alice", "carol"}
PasswordArgs == {<<>>, PwA, PwB}
ValueArgs == AmountArgs \ {""}

Next ==
    \/ \E u \in UsernameArgs, p \in PasswordArgs : Login(u, p)
    \/ \E c \in CurrencyArgs, a \in AmountArgs : Buy(c, a)
    \/ \E c \in CurrencyArgs, a \in AmountArgs : Sell(c, a)
    \/ \E c \in Codes, a \in ValueArgs : Deposit(c, a)
    \/ \E c \in Codes, a \in ValueArgs : Withdraw(c, a)
    \/ \E c \in Codes \cup {"BTC"} : AddCurrencyCall(c)
    \/ Restart

Spec == Init /\ [][Next]_vars

\* The account side of the program, from empty stores: register, login,
\* change_password and restart.
InitAuth ==
    /\ users_file = <<>>
    /\ portfolios_file = <<>>
    /\ rates_file \in RateTables
    /\ current_user = None
    /\ last = Call("start", "", "", "", <<>>, "ok")
    /\ replaced = {}
    /\ procs = [p \in Procs |-> Idle]

NextAuth ==
    \/ \E u \in {"", "alice", "bob", "carol"}, p \in {<<>>, PwShort, PwA, PwB} :
          Register(u, p, SaltA)
    \/ \E u \in {"", "alice", "bob", "carol"}, p \in PasswordArgs : Login(u, p)
    \/ \E p \in {PwShort, PwA, PwB}, s \in {SaltA, SaltB} : ChangePasswordCall(p, s)
    \/ Restart

SpecAuth == InitAuth /\ [][NextAuth]_vars

GetRateOrInverse(rates, a, b) ==
    IF GetRate(rates, a, b) # None THEN GetRate(rates, a, b) ELSE GetRate(rates, b, a)

\* get_rate as get_rate_cmd calls it.
GetRateCall(rates, a, b) == GetRate(rates, a, b)

\* get_rate_cmd(args): both codes upper-cased; usage when either is missing,
\* else the rate get_rate returned is printed, or that it is unavailable.
\* (The "inverse rate" line it adds is 1 / rate of the pair it found.)
GetRateCmd(from, to) ==
    LET c_from == Upper(from)
        c_to == Upper(to)
        rate == GetRateCall(rates_file, c_from, c_to)
    IN /\ last' = [op |-> "get_rate", currency |-> c_from, amount |-> "",
                  username |-> "", password |-> <<>>, to |-> c_to,
                  res |-> IF c_from = "" \/ c_to = "" THEN "usage"
                          ELSE IF rate = None THEN "rate_unavailable" ELSE "ok",
                  rate |-> IF c_from = "" \/ c_to = "" THEN None ELSE rate]
       /\ UNCHANGED <<users_file, portfolios_file, rates_file, current_user,
                      replaced, procs>>

\* One process at the command line: login, buy, sell, get-rate, and exit
\* followed by a new start.
NextCli ==
    \/ \E u \in UsernameArgs, p \in PasswordArgs : Login(u, p)
    \/ \E c \in CurrencyArgs, a \in AmountArgs : Buy(c, a)
    \/ \E c \in CurrencyArgs, a \in AmountArgs : Sell(c, a)
    \/ \E f \in CurrencyArgs, t \in CurrencyArgs : GetRateCmd(f, t)
    \/ Restart

SpecCli == Init /\ [][NextCli]_vars

\* Portfolio.get_total_value called on a portfolio of any wallets the
\* constructors accept: codes inside and outside the fixed table, balances
\* zero, positive and nan.
ValueCodes == {"USD", "EUR", "BTC", "GBP"}
ValueBalances == {Fin(10 * n) : n \in 0..MaxBal} \cup {NaN}

InitValue ==
    /\ users_file = << UserRecord(1, "alice", PwA, SaltA) >>
    /\ portfolios_file = << [user_id |-> 1, wallets |-> NoWallets] >>
    /\ rates_file \in RateTables
    /\ \E held \in SUBSET ValueCodes : \E wallets \in [held -> ValueBalances] :
          current_user = [user_id |-> 1, username |-> "alice",
                          hashed_password |-> HashPassword(PwA, SaltA),
                          salt |-> SaltA, wallets |-> wallets]
    /\ last = Call("start", "", "", "", <<>>, "ok")
    /\ replaced = {}
    /\ procs = [p \in Procs |-> Idle]

TotalValueCall(base) ==
    LET r == GetTotalValue(current_user.wallets, base)
    IN /\ last' = [op |-> "get_total_value", currency |-> base, amount |-> "",
                  username |-> "", password |-> <<>>, res |-> r.res,
                  value |-> r.value]
       /\ UNCHANGED <<users_file, portfolios_file, rates_file, current_user,
                      replaced, procs>>

NextValue == \E base \in ValueCodes \cup {"usd"} : TotalValueCall(base)

SpecValue == InitValue /\ [][NextValue]_vars

\* The session slot at the command line: either account, a name that is not
\* registered and a missing argument may be given to login; buy and sell run
\* with and without their arguments.
NextSession ==
    \/ \E u \in {"", "alice", "bob", "carol"}, p \in PasswordArgs : Login(u, p)
    \/ \E c \in {"", "eur"}, a \in {"", "1"} : Buy(c, a)
    \/ \E c \in {"", "eur"}, a \in {"", "1"} : Sell(c, a)
    \/ Restart

SpecSession == Init /\ [][NextSession]_vars

\* Two processes on one data directory.  Each runs login and buy; the files
\* are shared, SESSION is per process, and nothing locks the portfolio file
\* between the load_json and the save_json of save_portfolios, so the two are
\* separate steps and the other process may run in between.

SaveBaseCurrent(read, file) == file

\* save_portfolios: the list rewritten is the one load_json returned, whatever
\* the file holds by the time save_json runs.
SaveBase(read, file) == read

\* The amount a buy credited, in tenths.
Credited(amount) ==
    LET x == ParseFloat(amount).val IN IF x.k = "fin" THEN x.v ELSE 0

TwoLogin(p, username, password) ==
    /\ procs[p].read = None
    /\ LET r == LoginResult(users_file, procs[p].session, portfolios_file,
                            username, password)
       IN /\ procs' = [procs EXCEPT ![p] =
                 [session |-> r.cu, read |-> None, call |-> None,
                  bought |-> IF r.res \in {"ok", "crash"} THEN 0 ELSE @.bought]]
          /\ last' = Call("login", "", "", username,
                          IF r.res = "ok" THEN password ELSE <<>>, r.res)
    /\ UNCHANGED <<users_file, portfolios_file, rates_file, current_user, replaced>>

\* buy up to and including the load_json of save_portfolios; a buy that
\* returns earlier reports its outcome in this step.
TwoBuy(p, currency, amount) ==
    /\ procs[p].read = None
    /\ LET r == BuyResult(rates_file, procs[p].session, portfolios_file,
                          currency, amount)
       IN /\ WithinBound(r.cu)
          /\ procs' = [procs EXCEPT ![p] =
                 IF r.res = "ok"
                 THEN [session |-> r.cu, read |-> [file |-> portfolios_file],
                       call |-> Trade("buy", currency, amount, "ok"),
                       bought |-> @.bought]
                 ELSE [session |-> r.cu, read |-> None, call |-> None,
                       bought |-> IF r.res = "crash" THEN 0 ELSE @.bought]]
          /\ last' = IF r.res = "ok" THEN last
                     ELSE Trade("buy", currency, amount, r.res)
    /\ UNCHANGED <<users_file, portfolios_file, rates_file, current_user, replaced>>

\* the rest of the buy: save_json of the rewritten list, then the report.
TwoSave(p) ==
    /\ procs[p].read # None
    /\ portfolios_file' = SavePortfolios(SaveBase(procs[p].read.file, portfolios_file),
                                         procs[p].session)
    /\ procs' = [procs EXCEPT ![p] =
           [session |-> @.session, read |-> None, call |-> None,
            bought |-> @.bought + Credited(@.call.amount)]]
    /\ last' = procs[p].call
    /\ UNCHANGED <<users_file, rates_file, current_user, replaced>>

NextTwo ==
    \/ \E p \in Procs, u \in {"alice", "bob"}, pw \in {PwA, PwB} : TwoLogin(p, u, pw)
    \/ \E p \in Procs, c \in {"eur"}, a \in {"0", "1"} : TwoBuy(p, c, a)
    \/ \E p \in Procs : TwoSave(p)

SpecTwo == Init /\ [][NextTwo]_vars

-----------------------------------------------------------------------------
(* Properties *)

\* The balance a wallet held before a call: that of the wallet, or the zero a
\* wallet is created with.
HeldOrZero(wallets, code) == IF code \in DOMAIN wallets THEN wallets[code] ELSE Fin(0)

\* The wallets the portfolio file holds for the logged-in user, as login would load them.
Persisted == LoadPortfolio(portfolios_file, current_user.user_id).wallets

TradeDone == last.op \in {"buy", "sell"} /\ last.res \in {"ok", "rate_unavailable"}

\* C1: in every reachable state every wallet of the in-memory portfolio has
\* balance >= 0, as Python evaluates the comparison.
C1_BalanceNonNegative ==
    current_user # None =>
        \A c \in DOMAIN current_user.wallets : FLe(Fin(0), current_user.wallets[c])

\* C2 as stated: a sell by a logged-in user holding the wallet, of a valid
\* amount A against balance B, is refused with insufficient_funds and leaves
\* B when A > B, and otherwise leaves exactly B - A in the sold wallet, USD
\* included.
C2_SellLeavesDifference ==
    [][ (last'.op = "sell"
            /\ last'.res \in {"ok", "rate_unavailable", "insufficient_funds"})
        => LET code == last'.currency
               A == ParseFloat(last'.amount).val
               B == current_user.wallets[code]
           IN IF FGt(A, B)
              THEN last'.res = "insufficient_funds" /\ current_user'.wallets[code] = B
              ELSE last'.res # "insufficient_funds"
                   /\ current_user'.wallets[code] = FSub(B, A) ]_vars

\* C2 amended: as C2, except that a sell of USD whose USD->USD rate r is
\* quoted credits the revenue A * r back to the sold wallet, leaving
\* B - A + A * r.
C2_SellLeavesDifferenceOrCredit ==
    [][ (last'.op = "sell"
            /\ last'.res \in {"ok", "rate_unavailable", "insufficient_funds"})
        => LET code == last'.currency
               A == ParseFloat(last'.amount).val
               B == current_user.wallets[code]
               r == GetRate(rates_file, "USD", "USD")
           IN IF FGt(A, B)
              THEN last'.res = "insufficient_funds" /\ current_user'.wallets[code] = B
              ELSE /\ last'.res # "insufficient_funds"
                   /\ current_user'.wallets[code] =
                         IF code = "USD" /\ r # None
                         THEN FAdd(FSub(B, A), FMul(A, r))
                         ELSE FSub(B, A) ]_vars

\* C2 witness: 1 USD of a balance of 2 has been sold with USD->USD quoted at
\* 1.0, and the balance is 2 again.
C2_Witness ==
    /\ last.op = "sell" /\ last.res = "ok"
    /\ last.currency = "USD" /\ last.amount = "1"
    /\ current_user.wallets["USD"] = Fin(20)

\* C3: a buy that passes validation leaves the target wallet at its earlier
\* balance (zero if it had to be created) plus the amount, whether or not the
\* rate is quoted, adds no other wallet and changes no other balance.
C3_BuyAddsAmount ==
    [][ (last'.op = "buy" /\ last'.res \in {"ok", "rate_unavailable"})
        => LET code == last'.currency
               A == ParseFloat(last'.amount).val
               old == current_user.wallets
               new == current_user'.wallets
           IN /\ new[code] = FAdd(HeldOrZero(old, code), A)
              /\ DOMAIN new = DOMAIN old \cup {code}
              /\ \A c \in DOMAIN old \ {code} : new[c] = old[c]
              /\ current_user'.user_id = current_user.user_id ]_vars

\* C3 witness: a buy without a quoted rate has raised an existing balance.
C3_Witness ==
    /\ last.op = "buy" /\ last.res = "rate_unavailable" /\ last.amount = "1"
    /\ current_user.wallets[last.currency] = Fin(20)

\* C4: whenever a buy or sell that passed its guards has returned, the
\* portfolio file holds for the logged-in user the codes and balances of the
\* in-memory portfolio.
C4_TradePersisted == TradeDone => Persisted = current_user.wallets


\* C5 as stated: a sell that passes its guards and finds no rate leaves the
\* sold wallet decreased by the amount, creates no USD wallet, leaves the
\* balance of an existing USD wallet unchanged and every other wallet unchanged.
C5_SellNoRateKeepsUsd ==
    [][ (last'.op = "sell" /\ last'.res = "rate_unavailable")
        => LET code == last'.currency
               A == ParseFloat(last'.amount).val
               old == current_user.wallets
               new == current_user'.wallets
           IN /\ new[code] = FSub(old[code], A)
              /\ DOMAIN new = DOMAIN old
              /\ "USD" \in DOMAIN old => new["USD"] = old["USD"]
              /\ \A c \in DOMAIN old \ {code} : new[c] = old[c] ]_vars

\* C5 amended: as C5, the USD wallet being unchanged unless USD is itself the
\* currency sold, whose wallet is then decreased by the amount like any other.
C5_SellNoRateNoCredit ==
    [][ (last'.op = "sell" /\ last'.res = "rate_unavailable")
        => LET code == last'.currency
               A == ParseFloat(last'.amount).val
               old == current_user.wallets
               new == current_user'.wallets
           IN /\ new[code] = FSub(old[code], A)
              /\ DOMAIN new = DOMAIN old
              /\ ("USD" \in DOMAIN old /\ code # "USD") => new["USD"] = old["USD"]
              /\ \A c \in DOMAIN old \ {code} : new[c] = old[c] ]_vars

\* C5 witness: EUR has been sold without a rate by a user who holds no USD wallet.
C5_Witness ==
    /\ last.op = "sell" /\ last.res = "rate_unavailable" /\ last.currency = "EUR"
    /\ "USD" \notin DOMAIN current_user.wallets
    /\ current_user.wallets["EUR"] = Fin(10)

\* C6: a sell of A that passes its guards with the rate r quoted leaves the
\* sold wallet decreased by A, the USD wallet (created at zero if absent)
\* increased by A * r after that, and every other wallet unchanged.
C6_SellCreditsRevenue ==
    [][ (last'.op = "sell" /\ last'.res = "ok")
        => LET code == last'.currency
               A == ParseFloat(last'.amount).val
               r == GetRate(rates_file, code, "USD")
               old == current_user.wallets
               new == current_user'.wallets
               debited == SetWallet(old, code, FSub(old[code], A))
           IN /\ r # None
              /\ new["USD"] = FAdd(HeldOrZero(debited, "USD"), FMul(A, r))
              /\ code # "USD" => new[code] = debited[code]
              /\ DOMAIN new = DOMAIN old \cup {"USD"}
              /\ \A c \in DOMAIN old \ {code, "USD"} : new[c] = old[c] ]_vars

\* C6 witness: 1 EUR of 2 has been sold at 1.1 by a user who held no USD
\* wallet: EUR is 1 and USD 1.1.
C6_Witness ==
    /\ last.op = "sell" /\ last.res = "ok" /\ last.currency = "EUR"
    /\ current_user.wallets["EUR"] = Fin(10)
    /\ current_user.wallets["USD"] = Fin(11)

\* C7: a buy or sell refused by a guard leaves the in-memory portfolio, the
\* session and both stores as they were.
C7_RejectedChangesNothing ==
    [][ (last'.op \in {"buy", "sell"}
            /\ last'.res \in {"login_required", "invalid_amount",
                              "no_wallet", "insufficient_funds"})
        => /\ current_user' = current_user
           /\ portfolios_file' = portfolios_file
           /\ users_file' = users_file ]_vars

\* C7 witness: a sell has been refused for a currency the user holds no wallet of.
C7_Witness ==
    /\ last.op = "sell" /\ last.res = "no_wallet"
    /\ current_user # None
    /\ Persisted # current_user.wallets

\* C8: add_currency for a code the portfolio already holds fails with
\* duplicate_wallet and leaves every wallet and balance as it was, whatever
\* was deposited, withdrawn, bought or sold before.
C8_AddCurrencyRejectsDuplicate ==
    [][ (last'.op = "add_currency" /\ last'.currency \in DOMAIN current_user.wallets)
        => /\ last'.res = "duplicate_wallet"
           /\ current_user' = current_user ]_vars

\* C8 witness: add_currency has been refused for a wallet whose balance trading has moved.
C8_Witness ==
    /\ last.op = "add_currency" /\ last.res = "duplicate_wallet"
    /\ current_user.wallets[last.currency] = Fin(20)

C10_SaveLoadRoundTrip ==
    current_user # None =>
        LET reloaded == LoadPortfolio(SavePortfolios(portfolios_file, current_user),
                                      current_user.user_id)
        IN reloaded # None /\ reloaded.wallets = current_user.wallets

\* C10 witness: the in-memory portfolio differs from the saved one and holds a
\* wallet at zero and a wallet above zero.
C10_Witness ==
    /\ current_user # None
    /\ Persisted # current_user.wallets
    /\ \E c, d \in DOMAIN current_user.wallets :
          current_user.wallets[c] = Fin(0) /\ current_user.wallets[d] = Fin(11)



\* C11: after any sequence of register calls the stored usernames are pairwise
\* distinct, and a register with a stored username fails with
\* duplicate_username and leaves the account store and the portfolio store
\* unchanged.
C11_UsernamesDistinct ==
    [][ /\ \A i, j \in 1..Len(users_file') :
              users_file'[i].username = users_file'[j].username => i = j
        /\ (last'.op = "register" /\ last'.username # "" /\ last'.password # <<>>
                /\ \E i \in 1..Len(users_file) : users_file[i].username = last'.username)
           => /\ last'.res = "duplicate_username"
              /\ users_file' = users_file
              /\ portfolios_file' = portfolios_file ]_vars

\* C11 witness: a second register of a stored username, with a password that
\* would have been accepted, has been refused.
C11_Witness ==
    /\ last.op = "register" /\ last.res = "duplicate_username"
    /\ last.username = "alice" /\ last.password = PwB
    /\ Len(users_file) = 2

\* C17: register leaves the stored accounts as they were and appends one whose
\* identifier no stored account has, so identifiers are pairwise distinct and
\* never change; every account has exactly one portfolio record under its
\* identifier, and the record register creates has no wallets.
C17_IdentifiersAndPortfolios ==
    [][ /\ Len(users_file') >= Len(users_file)
        /\ \A i \in 1..Len(users_file) : users_file'[i] = users_file[i]
        /\ \A i, j \in 1..Len(users_file') :
              users_file'[i].user_id = users_file'[j].user_id => i = j
        /\ \A i \in 1..Len(users_file') :
              Cardinality({k \in 1..Len(portfolios_file') :
                  portfolios_file'[k].user_id = users_file'[i].user_id}) = 1
        /\ (last'.op = "register" /\ last'.res = "ok")
           => /\ Len(users_file') = Len(users_file) + 1
              /\ Len(portfolios_file') = Len(portfolios_file) + 1
              /\ portfolios_file'[Len(portfolios_file')] =
                    [user_id |-> users_file'[Len(users_file')].user_id,
                     wallets |-> NoWallets] ]_vars

\* C17 witness: a second account has been registered and has its own empty portfolio.
C17_Witness ==
    /\ last.op = "register" /\ last.res = "ok"
    /\ Len(users_file) = 2 /\ Len(portfolios_file) = 2
    /\ users_file[1].user_id # users_file[2].user_id
    /\ portfolios_file[2].wallets = NoWallets


\* C12: two processes share the portfolio file without locking.  A process
\* that completes a buy leaves in the file its own in-memory portfolio as its
\* account's record and every other record as it read it, discarding whatever
\* the other process wrote after that read: so there are interleavings of two
\* successful buys after which the file lacks one of the two deposits.
C12_LastWriterWins ==
    [][ \A p \in Procs :
          (procs[p].read # None /\ procs'[p].read = None)
          => /\ Len(portfolios_file') = Len(procs[p].read.file)
             /\ \A i \in 1..Len(portfolios_file') :
                   IF procs[p].read.file[i].user_id = procs[p].session.user_id
                   THEN /\ portfolios_file'[i].user_id = procs[p].session.user_id
                        /\ LoadPortfolio(portfolios_file', procs[p].session.user_id).wallets
                              = procs[p].session.wallets
                   ELSE portfolios_file'[i] = procs[p].read.file[i] ]_vars

\* C12 witness: both processes are logged in as alice, whose record began
\* without an EUR wallet; each has bought 1 EUR and reported it, and the file
\* holds 1 EUR, not 2.
C12_Witness ==
    /\ \A p \in Procs :
          /\ IF procs[p].session = None THEN FALSE ELSE procs[p].session.user_id = 1
          /\ procs[p].read = None
          /\ procs[p].bought = 10
          /\ IF procs[p].session = None THEN FALSE
             ELSE /\ DOMAIN procs[p].session.wallets = {"BTC", "EUR"}
                  /\ procs[p].session.wallets["EUR"] = Fin(10)
    /\ GetRate(rates_file, "EUR", "USD") # None
    /\ HeldOrZero(LoadPortfolio(portfolios_file, 1).wallets, "EUR") = Fin(10)


\* C13: a wallet once present in the logged-in account's portfolio is never
\* removed: from one state to the next the set of currency codes of the same
\* account's portfolio does not shrink, a login that reloads it included.
C13_WalletsNeverRemoved ==
    [][ IF current_user = None \/ current_user' = None THEN TRUE
        ELSE current_user'.user_id = current_user.user_id
             => DOMAIN current_user.wallets \subseteq DOMAIN current_user'.wallets ]_vars

\* C15: get_rate(from, to) is the stored rate exactly when the rate table has
\* the directed pair from -> to, and None otherwise, whether or not the table
\* has the inverse pair.
C15_DirectedPairOnly ==
    (last.op = "get_rate" /\ last.res # "usage")
    => IF last.currency \in DOMAIN rates_file
          /\ last.to \in DOMAIN rates_file[last.currency]
       THEN last.res = "ok" /\ last.rate = rates_file[last.currency][last.to]
       ELSE last.res = "rate_unavailable" /\ last.rate = None

\* C15 witness: a pair asked for whose inverse alone is quoted has been
\* reported unavailable.
C15_Witness ==
    /\ last.op = "get_rate" /\ last.res = "rate_unavailable"
    /\ last.to \in DOMAIN rates_file
    /\ last.currency \in DOMAIN rates_file[last.to]
    /\ last.rate = None


\* C14: Wallet.withdraw(amount) with a numeric amount succeeds exactly when
\* 0 < amount <= balance and then lowers the balance by amount; it fails with
\* invalid_amount when amount <= 0 and insufficient_funds when amount > balance.
\* Wallet.deposit(amount) succeeds exactly when amount > 0 and then raises the
\* balance by amount.  A failing call leaves the balance unchanged.
C14_WalletGuards ==
    [][ (last'.op \in {"deposit", "withdraw"} /\ ParseFloat(last'.amount).ok)
        => LET amt == ParseFloat(last'.amount).val
               bal == current_user.wallets[last'.currency]
               new == current_user'.wallets[last'.currency]
           IN /\ last'.res # "ok" => new = bal
              /\ FLe(amt, Fin(0)) => last'.res = "invalid_amount"
              /\ IF last'.op = "withdraw"
                 THEN /\ last'.res = "ok" <=> (FLt(Fin(0), amt) /\ FLe(amt, bal))
                      /\ last'.res = "ok" => new = FSub(bal, amt)
                      /\ FGt(amt, bal) => last'.res = "insufficient_funds"
                 ELSE /\ last'.res = "ok" <=> FLt(Fin(0), amt)
                      /\ last'.res = "ok" => new = FAdd(bal, amt) ]_vars


\* The value, in USD of the fixed table, of the wallet of one code; zero when
\* the portfolio has no such wallet.
FixedValue(wallets, code, rate) ==
    IF code \in DOMAIN wallets THEN FMul(wallets[code], rate) ELSE Fin(0)

\* C16: get_total_value(base) fails with unknown_base when base is none of
\* USD, EUR, BTC; otherwise it returns balance(USD) * 1.0 + balance(EUR) * 1.1
\* + balance(BTC) * 50000.0 over the wallets held, divided by the fixed rate
\* of base, wallets of other codes not counted; and it changes no wallet.
C16_TotalValue ==
    [][ last'.op = "get_total_value"
        => /\ current_user' = current_user
           /\ IF last'.currency \notin {"USD", "EUR", "BTC"}
              THEN last'.res = "unknown_base"
              ELSE /\ last'.res = "ok"
                   /\ last'.value =
                        FDiv(FAdd(FAdd(FixedValue(current_user.wallets, "USD", Fin(10)),
                                       FixedValue(current_user.wallets, "EUR", Fin(11))),
                                  FixedValue(current_user.wallets, "BTC", Fin(500000))),
                             IF last'.currency = "USD" THEN Fin(10)
                             ELSE IF last'.currency = "EUR" THEN Fin(11)
                             ELSE Fin(500000)) ]_vars

\* C16 witness: a portfolio holding 1 USD, 2 EUR, 1 BTC and 2 GBP has been
\* valued in EUR at (1*1.0 + 2*1.1 + 1*50000) / 1.1, the GBP not counted.
C16_Witness ==
    /\ last.op = "get_total_value" /\ last.currency = "EUR" /\ last.res = "ok"
    /\ DOMAIN current_user.wallets = {"USD", "EUR", "BTC", "GBP"}
    /\ current_user.wallets["USD"] = Fin(10) /\ current_user.wallets["EUR"] = Fin(20)
    /\ current_user.wallets["BTC"] = Fin(10) /\ current_user.wallets["GBP"] = Fin(20)
    /\ last.value = [k |-> "ratio", n |-> 500032, d |-> 11]


\* C18: a buy or sell by the logged-in user leaves the portfolio file with the
\* same number of records in the same order, and every record of another
\* account exactly as it was.
C18_OtherRecordsKept ==
    [][ (last'.op \in {"buy", "sell"} /\ current_user # None)
        => /\ Len(portfolios_file') = Len(portfolios_file)
           /\ \A i \in 1..Len(portfolios_file) :
                 /\ portfolios_file'[i].user_id = portfolios_file[i].user_id
                 /\ portfolios_file[i].user_id # current_user.user_id
                    => portfolios_file'[i] = portfolios_file[i] ]_vars

\* C18 witness: alice's buy has been saved, her record rewritten, and bob's
\* record is the one the run began with.
C18_Witness ==
    /\ last.op = "buy" /\ last.res = "ok"
    /\ portfolios_file[1].user_id = 1
    /\ "EUR" \in DOMAIN portfolios_file[1].wallets
    /\ portfolios_file[2] =
          [user_id |-> 2, wallets |-> [c \in {"EUR", "USD"} |-> [balance |-> Fin(10)]]]

\* C20: when a buy or sell has completed with the rate available, the
\* persisted record of the logged-in user is the whole in-memory portfolio,
\* the wallets changed by earlier rate-unavailable commands included.
C20_SaveWritesWholePortfolio ==
    (last.op \in {"buy", "sell"} /\ last.res = "ok" /\ current_user # None)
    => /\ DOMAIN Persisted = DOMAIN current_user.wallets
       /\ \A c \in DOMAIN current_user.wallets : Persisted[c] = current_user.wallets[c]

\* C20 witness: USD has no USD rate, so alice's USD could only come from a buy
\* that was not saved; a later buy of EUR at an available rate has put the
\* USD wallet into her persisted record.
C20_Witness ==
    /\ last.op = "buy" /\ last.res = "ok" /\ last.currency = "EUR"
    /\ GetRate(rates_file, "USD", "USD") = None
    /\ current_user # None
    /\ "USD" \in DOMAIN Persisted
    /\ Persisted["USD"] = Fin(10)


\* The account the session slot names.
Who(cu) == IF cu = None THEN None ELSE [user_id |-> cu.user_id, username |-> cu.username]

\* C19: the session slot comes to name an account U only in a login step whose
\* username is U's and whose password hashes, with U's stored salt, to U's
\* stored hash; a login that fails for a missing argument, an unknown username
\* or a wrong password leaves the slot as it was; a buy or sell that returns
\* leaves the slot naming the same account.
C19_SessionSetByLoginOnly ==
    [][ /\ (current_user' # None /\ Who(current_user') # Who(current_user))
           => last'.op = "login" /\ last'.res = "ok"
        /\ (last'.op = "login" /\ last'.res = "ok")
           => \E i \in 1..Len(users_file) :
                 /\ users_file[i].username = last'.username
                 /\ HashPassword(last'.password, users_file[i].salt)
                       = users_file[i].hashed_password
                 /\ Who(current_user') = [user_id |-> users_file[i].user_id,
                                          username |-> users_file[i].username]
        /\ (last'.op = "login"
                /\ last'.res \in {"usage", "user_not_found", "wrong_password"})
           => current_user' = current_user
        /\ (last'.op \in {"buy", "sell"} /\ last'.res # "crash")
           => Who(current_user') = Who(current_user) ]_vars

\* C19 witness: bob is logged in and has traded, and a login as alice with a
\* wrong password has just been refused, bob still in the slot.
C19_Witness ==
    /\ last.op = "login" /\ last.res = "wrong_password" /\ last.username = "alice"
    /\ current_user # None
    /\ Who(current_user) = [user_id |-> 2, username |-> "bob"]
    /\ current_user.wallets["EUR"] = Fin(20)

====
